---- MODULE Spec2Model ----
(***************************************************************************)
(* trlt: a command line translator.  One invocation of the binary runs one *)
(* of two commands, `init` (persist the configuration) or `translate`      *)
(* (resolve the input, read the configuration, one HTTP request, write the *)
(* result).  The file system outlives an invocation; everything else is    *)
(* per invocation.  Text is a sequence of characters; a few fixed texts    *)
(* (a prompt, a TOML key) are kept as one token.                           *)
(***************************************************************************)
EXTENDS Naturals, Sequences, FiniteSets

VARIABLES
    fs,             \* the file system: path -> [kind, data]
    configDir,      \* what dirs::config_dir() returns: <<>> (None) or <<dir>>
    runs,           \* invocations started so far
    pc,             \* position of the running invocation
    args,           \* the parsed command line of the running invocation
    stdinGiven,     \* standard input as fed: <<>> until the first read shows it
    stdin,          \* <<what of it is still unread>>, once a read has shown it
    stdout,         \* what the invocation printed to standard output
    exitCode,       \* <<>> while running, <<code>> once the process ended
    failure,        \* which error ended the invocation ("none" if none)
    errMsg,         \* the message of that error
    config,         \* the Config value in hand (built by init, read by translate)
    input_content,  \* main: the resolved text to translate
    response,       \* translate: the HTTP exchange's outcome
    response_text,  \* translate: choices[0].message.content
    stages,         \* the stages the invocation has run, in order
    requests,       \* the HTTP requests the invocation has sent
    clipboard,      \* the texts the invocation has put on the clipboard
    fs0,            \* the file system as the invocation found it
    osAnswer        \* how the operating system answered the invocation's write

vars == <<fs, configDir, runs, pc, args, stdinGiven, stdin, stdout, exitCode,
          failure, errMsg, config, input_content, response, response_text,
          stages, requests, clipboard, fs0, osAnswer>>

----------------------------------------------------------------------------
(* Bounds *)

MaxRuns == 2        \* invocations in one behaviour
MaxKeyLen == 2      \* length of an --api-key value
MaxStdinLen == 3    \* length of standard input

----------------------------------------------------------------------------
(* Text *)

StrUpTo(S, n) == UNION {[1..k -> S] : k \in 0..n}

None == <<>>
Some(v) == <<v>>

\* char::is_whitespace, as str::trim uses it
IsWhitespace(c) == c \in {" ", "\n", "\t", "\r"}

RECURSIVE TrimStart(_)
TrimStart(s) ==
    IF s # <<>> /\ IsWhitespace(Head(s)) THEN TrimStart(Tail(s)) ELSE s

RECURSIVE TrimEnd(_)
TrimEnd(s) ==
    IF s # <<>> /\ IsWhitespace(s[Len(s)])
    THEN TrimEnd(SubSeq(s, 1, Len(s) - 1))
    ELSE s

\* str::trim: no leading and no trailing whitespace
Trim(s) == TrimEnd(TrimStart(s))

\* Stdin::read_line: up to and including the first newline, or to the end
LineEnd(s) ==
    IF \E i \in 1..Len(s) : s[i] = "\n"
    THEN CHOOSE i \in 1..Len(s) : s[i] = "\n" /\ \A j \in 1..(i - 1) : s[j] # "\n"
    ELSE Len(s)

ReadLine(s) ==
    [line |-> SubSeq(s, 1, LineEnd(s)), rest |-> SubSeq(s, LineEnd(s) + 1, Len(s))]

----------------------------------------------------------------------------
(* TOML, as far as Config needs it: two keys, each a basic string *)

EscapeChar(c) ==
    CASE c = "\"" -> <<"\\", "\"">>
      [] c = "\\" -> <<"\\", "\\">>
      [] c = "\n" -> <<"\\", "n">>
      [] OTHER -> <<c>>

RECURSIVE Escape(_)
Escape(s) == IF s = <<>> THEN <<>> ELSE EscapeChar(Head(s)) \o Escape(Tail(s))

Quoted(s) == <<"\"">> \o Escape(s) \o <<"\"">>

\* toml::to_string_pretty(&Config)
to_string_pretty(c) ==
    <<"api_key", "=">> \o Quoted(c.api_key) \o <<"\n">>
        \o <<"model", "=">> \o Quoted(c.model) \o <<"\n">>

\* the body of a basic string after its opening quote: [ok, val, rest]
RECURSIVE ParseBody(_, _)
ParseBody(s, acc) ==
    IF s = <<>> THEN [ok |-> FALSE, val |-> <<>>, rest |-> <<>>]
    ELSE IF Head(s) = "\"" THEN [ok |-> TRUE, val |-> acc, rest |-> Tail(s)]
    ELSE IF Head(s) = "\n" THEN [ok |-> FALSE, val |-> <<>>, rest |-> <<>>]
    ELSE IF Head(s) = "\\"
    THEN IF Len(s) < 2 THEN [ok |-> FALSE, val |-> <<>>, rest |-> <<>>]
         ELSE IF s[2] = "n" THEN ParseBody(Tail(Tail(s)), Append(acc, "\n"))
         ELSE IF s[2] \in {"\"", "\\"} THEN ParseBody(Tail(Tail(s)), Append(acc, s[2]))
         ELSE [ok |-> FALSE, val |-> <<>>, rest |-> <<>>]
    ELSE ParseBody(Tail(s), Append(acc, Head(s)))

\* one `key = "value"` line: [ok, val, rest]
ParseField(s, key) ==
    IF Len(s) >= 3 /\ s[1] = key /\ s[2] = "=" /\ s[3] = "\""
    THEN LET b == ParseBody(SubSeq(s, 4, Len(s)), <<>>)
         IN  IF b.ok /\ b.rest # <<>> /\ Head(b.rest) = "\n"
             THEN [ok |-> TRUE, val |-> b.val, rest |-> Tail(b.rest)]
             ELSE [ok |-> FALSE, val |-> <<>>, rest |-> <<>>]
    ELSE [ok |-> FALSE, val |-> <<>>, rest |-> <<>>]

\* toml::from_str::<Config>: Some(config), or None on any error
from_str(text) ==
    LET k == ParseField(text, "api_key")
        m == ParseField(k.rest, "model")
    IN  IF k.ok /\ m.ok /\ m.rest = <<>>
        THEN Some([api_key |-> k.val, model |-> m.val])
        ELSE None

----------------------------------------------------------------------------
(* The file system *)

ConfigDir == <<"d">>
\* dirs::config_dir().join("trlt.toml")
ConfigPathOf(dir) == dir \o <<"/", "trlt.toml">>
ConfigPath == ConfigPathOf(ConfigDir)
DashPath == <<"-">>
InPath == <<"i">>
OutPath == <<"o">>
Paths == {ConfigDir, ConfigPath, DashPath, InPath, OutPath}

NoFile == [kind |-> "none", data |-> <<>>]
Dir == [kind |-> "dir", data |-> <<>>]
File(d) == [kind |-> "file", data |-> d]
\* a regular file whose bytes are not UTF-8
BadFile == [kind |-> "bad", data |-> <<>>]

\* Path::is_file
is_file(f, p) == p \in DOMAIN f /\ f[p].kind \in {"file", "bad"}

\* fs::read_to_string: Some(text) or None
read_to_string(f, p) ==
    IF p \in DOMAIN f /\ f[p].kind = "file" THEN Some(f[p].data) ELSE None

ParentExists(f, p) == p = ConfigPath => f[ConfigDir].kind = "dir"

\* what the operating system may answer a write that could be opened
WriteEnv == {"ok", "denied", "full"}

\* fs::write gone wrong: the file opened for append, not truncated
FsWriteAppend(f, p, data, env) ==
    IF p \notin DOMAIN f \/ f[p].kind = "dir" \/ ~ParentExists(f, p) \/ env = "denied"
    THEN [ok |-> FALSE, fs |-> f]
    ELSE IF env = "full"
    THEN [ok |-> FALSE, fs |-> f]
    ELSE [ok |-> TRUE, fs |-> [f EXCEPT ![p] = File(f[p].data \o data)]]

\* fs::write(p, data): create or truncate, then write all: [ok, fs]
FsWrite(f, p, data, env) ==
    IF p \notin DOMAIN f \/ f[p].kind = "dir" \/ ~ParentExists(f, p) \/ env = "denied"
    THEN [ok |-> FALSE, fs |-> f]
    ELSE IF env = "full"
    THEN [ok |-> FALSE, fs |-> [f EXCEPT ![p] = File(<<>>)]]
    ELSE [ok |-> TRUE, fs |-> [f EXCEPT ![p] = File(data)]]

----------------------------------------------------------------------------
(* Config Store *)

\* read_config: [kind, config]
read_config(f, cd) ==
    IF cd = None THEN [kind |-> "DirectoryResolution", config |-> None]
    ELSE LET text == read_to_string(f, ConfigPathOf(cd[1]))
         IN  IF text = None THEN [kind |-> "ConfigRead", config |-> None]
             ELSE IF from_str(text[1]) = None
             THEN [kind |-> "ConfigParse", config |-> None]
             ELSE [kind |-> "none", config |-> from_str(text[1])]

\* write_config: [kind, fs]
write_config(f, cd, c, env) ==
    IF cd = None THEN [kind |-> "DirectoryResolution", fs |-> f]
    ELSE LET w == FsWrite(f, ConfigPathOf(cd[1]), to_string_pretty(c), env)
         IN  [kind |-> IF w.ok THEN "none" ELSE "ConfigWrite", fs |-> w.fs]

----------------------------------------------------------------------------
(* JSON, as serde_json::Value *)

JNull == [t |-> "null"]
JNum == [t |-> "number"]
JStr(s) == [t |-> "string", s |-> s]
JArr(a) == [t |-> "array", a |-> a]
JObj(f) == [t |-> "object", f |-> f]

\* Value's Index<&str>: Null unless an object that has the key
Get(v, key) == IF v.t = "object" /\ key \in DOMAIN v.f THEN v.f[key] ELSE JNull

\* Value's Index<usize> (0-based): Null unless an array that long
At(v, i) == IF v.t = "array" /\ (i + 1) \in DOMAIN v.a THEN v.a[i + 1] ELSE JNull

\* Value::as_str
as_str(v) == IF v.t = "string" THEN Some(v.s) ELSE None

\* Display of a Value that is a string: the JSON text, quotes included
Display(v) == IF v.t = "string" THEN Quoted(v.s) ELSE <<v.t>>

----------------------------------------------------------------------------
(* What the world may hand an invocation *)

KeyChars == {"k", " ", "\""}
StdinChars == {"k", "\n"}
DefaultModel == <<"gpt-4o-mini">>
DefaultTo == "en"

InitArgs ==
    [cmd : {"init"},
     api_key : {None} \cup {Some(k) : k \in StrUpTo(KeyChars, MaxKeyLen)},
     model : {DefaultModel, <<>>}]

TranslateArgs ==
    [cmd : {"translate"},
     input : {DashPath, InPath, ConfigDir, <<>>, <<"h">>},
     output : {None, Some(OutPath), Some(ConfigPath), Some(ConfigDir)},
     from : {None, Some("pt")},
     to : {DefaultTo}]

\* standard input: a text, or bytes that are not UTF-8
BadStdin == [ok |-> FALSE, data |-> <<>>]
InitStdins == {[ok |-> TRUE, data |-> d] : d \in StrUpTo(StdinChars, MaxStdinLen)}
                 \cup {BadStdin}
TranslateStdins == {[ok |-> TRUE, data |-> <<>>], [ok |-> TRUE, data |-> <<"h", "\n">>],
                    BadStdin}

Hola == <<"H">>
Choices(content) == JArr(<<JObj([message |-> JObj([content |-> content])])>>)

Bodies ==
    { JObj([choices |-> Choices(JStr(Hola))]),
      JObj([choices |-> Choices(JStr(<<>>))]),
      JObj([choices |-> Choices(JNum)]),
      JObj([choices |-> JArr(<<>>)]),
      JObj([error |-> JObj([message |-> JStr(<<"r">>)])]),
      JObj([error |-> JObj([message |-> JStr(<<"r">>)]), choices |-> Choices(JStr(Hola))]),
      JObj([error |-> JObj([message |-> JNull]), choices |-> Choices(JStr(Hola))]),
      JObj([error |-> JObj([message |-> JNum])]),
      JObj([error |-> JStr(<<"r">>), choices |-> Choices(JStr(Hola))]),
      JStr(Hola) }

\* how the one HTTP exchange may end
HttpOutcomes ==
    {[kind |-> "send_error", json |-> JNull], [kind |-> "not_json", json |-> JNull]}
        \cup {[kind |-> "json", json |-> b] : b \in Bodies}

ValidConfig == [api_key |-> <<"k">>, model |-> DefaultModel]

----------------------------------------------------------------------------
(* The state an invocation starts from *)

Init ==
    /\ \E d \in {"nodir_unknown", "nodir", "dir", "dir_config"},
          i \in {File(<<"f">>), BadFile},
          o \in {NoFile, File(<<"o", "l", "d">>)} :
            /\ configDir = IF d = "nodir_unknown" THEN None ELSE Some(ConfigDir)
            /\ fs = [p \in Paths |->
                        CASE p = ConfigDir -> IF d \in {"dir", "dir_config"} THEN Dir ELSE NoFile
                          [] p = ConfigPath -> IF d = "dir_config"
                                               THEN File(to_string_pretty(ValidConfig))
                                               ELSE NoFile
                          [] p = DashPath -> File(<<"d", "a", "s", "h">>)
                          [] p = InPath -> i
                          [] p = OutPath -> o]
    /\ runs = 0
    /\ pc = "idle"
    /\ args = [cmd |-> "none"]
    /\ stdinGiven = None
    /\ stdin = None
    /\ stdout = <<>>
    /\ exitCode = None
    /\ failure = "none"
    /\ errMsg = <<>>
    /\ config = None
    /\ input_content = None
    /\ response = None
    /\ response_text = None
    /\ stages = <<>>
    /\ requests = <<>>
    /\ clipboard = <<>>
    /\ fs0 = fs
    /\ osAnswer = None

\* Cli::parse() took the init command
StartInit ==
    /\ pc = "idle"
    /\ runs < MaxRuns
    /\ runs' = runs + 1
    /\ \E a \in InitArgs : args' = a
    /\ pc' = "main_init"
    /\ fs0' = fs
    /\ UNCHANGED <<fs, configDir, stdinGiven, stdin, stdout, exitCode, failure, errMsg,
                   config, input_content, response, response_text, stages, requests,
                   clipboard, osAnswer>>

\* Cli::parse() took the translate command
StartTranslate ==
    /\ pc = "idle"
    /\ runs < MaxRuns
    /\ runs' = runs + 1
    /\ \E a \in TranslateArgs : args' = a
    /\ pc' = "main_translate"
    /\ fs0' = fs
    /\ UNCHANGED <<fs, configDir, stdinGiven, stdin, stdout, exitCode, failure, errMsg,
                   config, input_content, response, response_text, stages, requests,
                   clipboard, osAnswer>>

\* the process is gone: nothing but the file system and the environment carries
\* over to the next invocation
ProcessGone ==
    /\ pc = "exited"
    /\ runs < MaxRuns
    /\ pc' = "idle"
    /\ args' = [cmd |-> "none"]
    /\ stdinGiven' = None
    /\ stdin' = None
    /\ stdout' = <<>>
    /\ exitCode' = None
    /\ failure' = "none"
    /\ errMsg' = <<>>
    /\ config' = None
    /\ input_content' = None
    /\ response' = None
    /\ response_text' = None
    /\ stages' = <<>>
    /\ requests' = <<>>
    /\ clipboard' = <<>>
    /\ fs0' = fs
    /\ osAnswer' = None
    /\ UNCHANGED <<fs, configDir, runs>>

\* an error gone wrong: reported, but main returns normally
PanicExitZero(kind, msg) ==
    /\ pc' = "exited"
    /\ exitCode' = Some(0)
    /\ failure' = kind
    /\ errMsg' = msg

\* a panic (unwrap, expect): the message to standard error, exit code 101
Panic(kind, msg) ==
    /\ pc' = "exited"
    /\ exitCode' = Some(101)
    /\ failure' = kind
    /\ errMsg' = msg

\* main returns
Exit0 ==
    /\ pc' = "exited"
    /\ exitCode' = Some(0)
    /\ UNCHANGED <<failure, errMsg>>

\* standard input as the next read finds it: what the world feeds (S) on the
\* first read, what earlier reads left afterwards
StdinNow(S) == IF stdinGiven = None THEN S ELSE {stdin[1]}

Feed(s) == stdinGiven' = IF stdinGiven = None THEN Some(s) ELSE stdinGiven

\* println!("{}", text): the text and one newline
println(out, text) == out \o text \o <<"\n">>

Prompt == "Provide the OpenAI API key: "
Created == "Config file created successfully in $HOME/.config/trlt.toml"

----------------------------------------------------------------------------
(* init *)

\* main, Command::Init: the key from the argument or from one line of standard
\* input, trimmed either way
MainInit ==
    /\ pc = "main_init"
    /\ IF args.api_key = None
       THEN /\ stdout' = println(stdout, <<Prompt>>)
            /\ \E s \in StdinNow(InitStdins) :
                /\ Feed(s)
                /\ IF s.ok
                   THEN /\ stdin' = Some([s EXCEPT !.data = ReadLine(s.data).rest])
                        /\ config' = Some([api_key |-> Trim(ReadLine(s.data).line),
                                           model |-> args.model])
                        /\ pc' = "init"
                        /\ UNCHANGED <<exitCode, failure, errMsg>>
                   ELSE /\ stdin' = Some(s)
                        /\ Panic("StdinRead", <<"Failed to read from stdin">>)
                        /\ UNCHANGED config
       ELSE /\ config' = Some([api_key |-> Trim(args.api_key[1]), model |-> args.model])
            /\ pc' = "init"
            /\ UNCHANGED <<stdout, stdinGiven, stdin, exitCode, failure, errMsg>>
    /\ UNCHANGED <<fs, configDir, runs, args, input_content, response, response_text,
                   stages, requests, clipboard, fs0, osAnswer>>

\* init, up to write_config: an empty key is asked for again, and all of what
\* is left of standard input is taken for it
InitPrompt ==
    /\ pc = "init"
    /\ IF config[1].api_key = <<>>
       THEN /\ stdout' = println(stdout, <<Prompt>>)
            /\ \E s \in StdinNow(InitStdins) :
                /\ Feed(s)
                /\ IF s.ok
                   THEN /\ stdin' = Some([s EXCEPT !.data = <<>>])
                        /\ config' = Some([config[1] EXCEPT !.api_key = @ \o s.data])
                        /\ pc' = "write_config"
                        /\ UNCHANGED <<exitCode, failure, errMsg>>
                   ELSE /\ stdin' = Some(s)
                        /\ Panic("StdinRead", <<"stream did not contain valid UTF-8">>)
                        /\ UNCHANGED config
       ELSE /\ pc' = "write_config"
            /\ UNCHANGED <<stdout, stdinGiven, stdin, config, exitCode, failure, errMsg>>
    /\ UNCHANGED <<fs, configDir, runs, args, input_content, response, response_text,
                   stages, requests, clipboard, fs0, osAnswer>>

\* init's call of write_config; its error ends main's unwrap
InitWrite ==
    /\ pc = "write_config"
    /\ stages' = Append(stages, "config_write")
    /\ \E env \in WriteEnv :
        LET w == write_config(fs, configDir, config[1], env)
        IN  /\ fs' = w.fs
            /\ osAnswer' = Some(env)
            /\ IF w.kind = "none"
               THEN /\ pc' = "init_written"
                    /\ UNCHANGED <<exitCode, failure, errMsg>>
               ELSE Panic(w.kind, <<w.kind>>)
    /\ UNCHANGED <<configDir, runs, args, stdinGiven, stdin, stdout, config,
                   input_content, response, response_text, requests, clipboard, fs0>>

\* init's last lines: the message, Ok(())
InitDone ==
    /\ pc = "init_written"
    /\ stdout' = println(stdout, <<Created>>)
    /\ Exit0
    /\ UNCHANGED <<fs, configDir, runs, args, stdinGiven, stdin, config, input_content,
                   response, response_text, stages, requests, clipboard, fs0, osAnswer>>

----------------------------------------------------------------------------
(* translate *)

\* the choice gone wrong: an existing file named "-" wins over standard input
InputSourceFileFirst(f, input) ==
    IF is_file(f, input) THEN "file"
    ELSE IF input = DashPath THEN "stdin"
    ELSE "literal"

\* main's three-way choice of where the text comes from
InputSource(f, input) ==
    IF input = DashPath THEN "stdin"
    ELSE IF is_file(f, input) THEN "file"
    ELSE "literal"

\* main, Command::Translate: standard input, a file's contents, or the argument
MainTranslate ==
    /\ pc = "main_translate"
    /\ stages' = Append(stages, "resolve")
    /\ IF InputSource(fs, args.input) = "stdin"
       THEN \E s \in StdinNow(TranslateStdins) :
                /\ Feed(s)
                /\ IF s.ok
                   THEN /\ stdin' = Some([s EXCEPT !.data = <<>>])
                        /\ input_content' = Some(s.data)
                        /\ pc' = "translate"
                        /\ UNCHANGED <<exitCode, failure, errMsg>>
                   ELSE /\ stdin' = Some(s)
                        /\ Panic("StdinRead", <<"Failed to read from stdin">>)
                        /\ UNCHANGED input_content
       ELSE /\ IF InputSource(fs, args.input) = "file"
               THEN IF read_to_string(fs, args.input) = None
                    THEN /\ Panic("InputRead", <<"Failed to read input file">>)
                         /\ UNCHANGED input_content
                    ELSE /\ input_content' = read_to_string(fs, args.input)
                         /\ pc' = "translate"
                         /\ UNCHANGED <<exitCode, failure, errMsg>>
               ELSE /\ input_content' = Some(args.input)
                    /\ pc' = "translate"
                    /\ UNCHANGED <<exitCode, failure, errMsg>>
            /\ UNCHANGED <<stdinGiven, stdin>>
    /\ UNCHANGED <<fs, configDir, runs, args, stdout, config, response, response_text,
                   requests, clipboard, fs0, osAnswer>>

\* translate's first line: read_config().expect(..)
TranslateConfig ==
    /\ pc = "translate"
    /\ stages' = Append(stages, "config_read")
    /\ LET r == read_config(fs, configDir)
       IN  IF r.kind = "none"
           THEN /\ config' = r.config
                /\ pc' = "send"
                /\ UNCHANGED <<exitCode, failure, errMsg>>
           ELSE /\ Panic(r.kind, <<"Failed to read config file. Please run trlt init --help to help you create a config file.">>)
                /\ UNCHANGED config
    /\ UNCHANGED <<fs, configDir, runs, args, stdinGiven, stdin, stdout, input_content,
                   response, response_text, requests, clipboard, fs0, osAnswer>>

\* the prompt translate builds
PromptOf(from, to, input) ==
    IF from # None
    THEN <<"Translate this from ", from[1], " to ", to, ": ">> \o input
    ELSE <<"Translate this to ", to, ": ">> \o input

RequestOf(c, prompt) ==
    [url |-> "https://api.openai.com/v1/chat/completions",
     authorization |-> <<"Bearer ">> \o c.api_key,
     model |-> c.model,
     system |-> "You are a translator that only gives the translated text.",
     user |-> prompt]

\* translate: the request is built and sent; the world answers
TranslateSend ==
    /\ pc = "send"
    /\ stages' = Append(stages, "http")
    /\ requests' = Append(requests,
                          RequestOf(config[1], PromptOf(args.from, args.to, input_content[1])))
    /\ \E r \in HttpOutcomes :
        /\ response' = Some(r)
        /\ IF r.kind = "send_error"
           THEN Panic("HttpSend", <<"error sending request">>)
           ELSE /\ pc' = "parse"
                /\ UNCHANGED <<exitCode, failure, errMsg>>
    /\ UNCHANGED <<fs, configDir, runs, args, stdinGiven, stdin, stdout, config,
                   input_content, response_text, clipboard, fs0, osAnswer>>

Content(r) == as_str(Get(Get(At(Get(r.json, "choices"), 0), "message"), "content"))

\* the examination gone wrong: the choices looked at before the error object
OutcomeContentFirst(r) ==
    IF r.kind # "json"
    THEN [kind |-> "ResponseDecode", msg |-> <<"error decoding response body">>, text |-> None]
    ELSE IF Content(r) # None /\ Content(r)[1] # <<>>
    THEN [kind |-> "none", msg |-> <<>>, text |-> Content(r)]
    ELSE IF as_str(Get(Get(r.json, "error"), "message")) # None
    THEN [kind |-> "RemoteAPIError",
          msg |-> <<"Failed to translate text: ">> \o Display(Get(Get(r.json, "error"), "message")),
          text |-> None]
    ELSE IF Content(r) = None
    THEN [kind |-> "MalformedResponse",
          msg |-> <<"called Option::unwrap on a None value">>, text |-> None]
    ELSE [kind |-> "EmptyTranslation",
          msg |-> <<"Failed to translate text: Empty response from API">>, text |-> None]

\* the examination gone wrong: no check for an empty text
OutcomeNoEmptyCheck(r) ==
    IF r.kind # "json"
    THEN [kind |-> "ResponseDecode", msg |-> <<"error decoding response body">>, text |-> None]
    ELSE IF as_str(Get(Get(r.json, "error"), "message")) # None
    THEN [kind |-> "RemoteAPIError",
          msg |-> <<"Failed to translate text: ">> \o Display(Get(Get(r.json, "error"), "message")),
          text |-> None]
    ELSE IF Content(r) = None
    THEN [kind |-> "MalformedResponse",
          msg |-> <<"called Option::unwrap on a None value">>, text |-> None]
    ELSE [kind |-> "none", msg |-> <<>>, text |-> Content(r)]

\* what translate makes of the answer: [kind, msg, text]
Outcome(r) ==
    IF r.kind # "json"
    THEN [kind |-> "ResponseDecode", msg |-> <<"error decoding response body">>, text |-> None]
    ELSE IF as_str(Get(Get(r.json, "error"), "message")) # None
    THEN [kind |-> "RemoteAPIError",
          msg |-> <<"Failed to translate text: ">> \o Display(Get(Get(r.json, "error"), "message")),
          text |-> None]
    ELSE IF Content(r) = None
    THEN [kind |-> "MalformedResponse",
          msg |-> <<"called Option::unwrap on a None value">>, text |-> None]
    ELSE IF Content(r)[1] = <<>>
    THEN [kind |-> "EmptyTranslation",
          msg |-> <<"Failed to translate text: Empty response from API">>, text |-> None]
    ELSE [kind |-> "none", msg |-> <<>>, text |-> Content(r)]

\* translate: the body is decoded and examined
TranslateParse ==
    /\ pc = "parse"
    /\ LET o == Outcome(response[1])
       IN  IF o.kind = "none"
           THEN /\ response_text' = o.text
                /\ pc' = "emit"
                /\ UNCHANGED <<exitCode, failure, errMsg>>
           ELSE /\ Panic(o.kind, o.msg)
                /\ UNCHANGED response_text
    /\ UNCHANGED <<fs, configDir, runs, args, stdinGiven, stdin, stdout, config,
                   input_content, response, stages, requests, clipboard, fs0, osAnswer>>

\* translate's end: the text to the output path, or to standard output
TranslateEmit ==
    /\ pc = "emit"
    /\ stages' = Append(stages, "output")
    /\ IF args.output # None
       THEN /\ \E env \in WriteEnv :
                LET w == FsWrite(fs, args.output[1], response_text[1], env)
                IN  /\ fs' = w.fs
                    /\ osAnswer' = Some(env)
                    /\ IF w.ok THEN Exit0
                       ELSE Panic("OutputWrite", <<"OutputWrite">>)
            /\ UNCHANGED stdout
       ELSE /\ stdout' = println(stdout, response_text[1])
            /\ Exit0
            /\ UNCHANGED <<fs, osAnswer>>
    /\ UNCHANGED <<configDir, runs, args, stdinGiven, stdin, config, input_content,
                   response, response_text, requests, clipboard, fs0>>

----------------------------------------------------------------------------

Next ==
    \/ StartInit
    \/ StartTranslate
    \/ MainInit
    \/ InitPrompt
    \/ InitWrite
    \/ InitDone
    \/ MainTranslate
    \/ TranslateConfig
    \/ TranslateSend
    \/ TranslateParse
    \/ TranslateEmit
    \/ ProcessGone

Spec == Init /\ [][Next]_vars

----------------------------------------------------------------------------
(* What the claims speak of *)

Exited == pc = "exited"
InitRun == args.cmd = "init"
TranslateRun == args.cmd = "translate"
Ran(stage) == \E i \in DOMAIN stages : stages[i] = stage
IsPrefix(s, t) == Len(s) <= Len(t) /\ s = SubSeq(t, 1, Len(s))
Contains(hay, needle) ==
    \E i \in 0..Len(hay) :
        i + Len(needle) <= Len(hay) /\ SubSeq(hay, i + 1, i + Len(needle)) = needle

\* the config file as a reader finds it now
Persisted == read_config(fs, configDir).config

\* the response read off its structure
HasKey(v, k) == v.t = "object" /\ k \in DOMAIN v.f

ErrorMessageField(j) ==
    IF HasKey(j, "error") /\ HasKey(j.f["error"], "message")
    THEN Some(j.f["error"].f["message"])
    ELSE None

ErrorMessageString(j) ==
    IF ErrorMessageField(j) # None /\ ErrorMessageField(j)[1].t = "string"
    THEN Some(ErrorMessageField(j)[1].s)
    ELSE None

ContentString(j) ==
    IF /\ HasKey(j, "choices")
       /\ j.f["choices"].t = "array"
       /\ Len(j.f["choices"].a) >= 1
       /\ HasKey(j.f["choices"].a[1], "message")
       /\ HasKey(j.f["choices"].a[1].f["message"], "content")
       /\ j.f["choices"].a[1].f["message"].f["content"].t = "string"
    THEN Some(j.f["choices"].a[1].f["message"].f["content"].s)
    ELSE None

\* translate has examined a decoded response
Parsed ==
    /\ TranslateRun
    /\ response # None
    /\ response[1].kind = "json"
    /\ pc \in {"emit", "exited"}

StageOrder == <<"resolve", "config_read", "http", "output">>

StageOfFailure(k) ==
    CASE k \in {"StdinRead", "InputRead"} -> "resolve"
      [] k \in {"DirectoryResolution", "ConfigRead", "ConfigParse"} -> "config_read"
      [] k \in {"HttpSend", "ResponseDecode", "RemoteAPIError", "MalformedResponse",
                "EmptyTranslation"} -> "http"
      [] k = "OutputWrite" -> "output"
      [] OTHER -> "none"

----------------------------------------------------------------------------
(* Claims *)

\* C1: for every pair {api_key, model} of non-empty strings, init with that
\* pair followed by a config read returns the api_key and the model that were
\* passed.
C1_RoundTrip ==
    (Exited /\ InitRun /\ exitCode = Some(0)
        /\ args.api_key # None /\ args.api_key[1] # <<>> /\ args.model # <<>>)
    => Persisted = Some([api_key |-> args.api_key[1], model |-> args.model])

\* C2: after an init that succeeded, the config file holds a non-empty api_key
\* and a non-empty model.
C2_PersistedNonEmpty ==
    (Exited /\ InitRun /\ exitCode = Some(0))
    => /\ Persisted # None
       /\ Persisted[1].api_key # <<>>
       /\ Persisted[1].model # <<>>

\* C3: init without an api_key persists the first line of standard input,
\* trimmed, and consumes that line only.
C3_OneLineTrimmed ==
    (Exited /\ InitRun /\ exitCode = Some(0) /\ args.api_key = None)
    => /\ Persisted # None
       /\ Persisted[1].api_key = Trim(ReadLine(stdinGiven[1].data).line)
       /\ stdin[1].data = ReadLine(stdinGiven[1].data).rest

C5_OutcomeOrder ==
    Parsed =>
        LET j == response[1].json
        IN  IF ErrorMessageString(j) # None
            THEN /\ failure = "RemoteAPIError"
                 /\ Contains(errMsg, ErrorMessageString(j)[1])
                 /\ response_text = None
            ELSE IF ContentString(j) = None
            THEN failure = "MalformedResponse" /\ response_text = None
            ELSE IF ContentString(j)[1] = <<>>
            THEN failure = "EmptyTranslation" /\ response_text = None
            ELSE /\ response_text = ContentString(j)
                 /\ failure \in {"none", "OutputWrite"}

\* C5's case: an error message and a usable choice in one response
C5_Witness ==
    /\ Parsed
    /\ ErrorMessageString(response[1].json) # None
    /\ ContentString(response[1].json) = Some(Hola)
    /\ failure = "RemoteAPIError"

\* C5, as claimed: an error object with a message field, of whatever type,
\* makes the call fail with RemoteAPIError.
C5_AsClaimed ==
    Parsed =>
        LET j == response[1].json
        IN  IF ErrorMessageField(j) # None
            THEN failure = "RemoteAPIError"
            ELSE IF ContentString(j) = None
            THEN failure = "MalformedResponse"
            ELSE IF ContentString(j)[1] = <<>>
            THEN failure = "EmptyTranslation"
            ELSE /\ response_text = ContentString(j)
                 /\ failure \in {"none", "OutputWrite"}

\* C6: after a successful translate with an output path, the file there holds
\* exactly the translated text and standard output holds nothing; without one,
\* standard output holds the text and one newline and no file has changed.
C6_OutputSink ==
    (Exited /\ TranslateRun /\ exitCode = Some(0))
    => IF args.output # None
       THEN /\ fs[args.output[1]] = File(response_text[1])
            /\ \A p \in Paths \ {args.output[1]} : fs[p] = fs0[p]
            /\ stdout = <<>>
       ELSE /\ stdout = response_text[1] \o <<"\n">>
            /\ fs = fs0

\* C6's case: the output path named a file that held something else
C6_Witness ==
    /\ Exited /\ TranslateRun /\ exitCode = Some(0)
    /\ args.output = Some(OutPath)
    /\ fs0[OutPath].kind = "file"
    /\ fs0[OutPath].data # response_text[1]

C8_ClipboardAttempted ==
    (TranslateRun /\ Ran("output")) => clipboard = <<response_text[1]>>

\* C9: when the config directory is known but not on disk (and the operating
\* system refuses nothing), init succeeds, the config file then holds the
\* config init built, and the success message is printed.
C9_CreatesParentDirs ==
    (Exited /\ InitRun /\ configDir # None /\ fs0[ConfigDir].kind = "none"
        /\ osAnswer = Some("ok"))
    => /\ exitCode = Some(0)
       /\ Persisted = config
       /\ Contains(stdout, <<Created>>)

\* a translate whose config or whose response cannot give a translation
NoUsableConfig == read_config(fs0, configDir).kind # "none"
BadResponse ==
    /\ response # None
    /\ \/ response[1].kind # "json"
       \/ ErrorMessageString(response[1].json) # None
       \/ ContentString(response[1].json) = None
       \/ ContentString(response[1].json) = Some(<<>>)

FailedBeforeOutput ==
    \/ NoUsableConfig
    \/ BadResponse
    \/ failure \notin {"none", "OutputWrite"}

\* C10, as amended: a translate that fails before the output stage leaves
\* every file as it was and prints nothing to standard output; and a translate
\* changes the config file only in its output stage, when the output path
\* names the config file.
C10_FrameAmended ==
    TranslateRun =>
        /\ FailedBeforeOutput => fs = fs0 /\ stdout = <<>>
        /\ fs[ConfigPath] # fs0[ConfigPath]
             => args.output = Some(ConfigPath) /\ Ran("output")

\* C10's case: the translation came back empty, and an output file was named
C10_Witness ==
    /\ TranslateRun /\ Exited
    /\ failure = "EmptyTranslation"
    /\ args.output = Some(OutPath)
    /\ fs0[OutPath].kind = "file"

\* C10, as claimed: a failed translate leaves the files and standard output
\* alone, and no translate ever changes the config file.
C10_AsClaimed ==
    TranslateRun =>
        /\ FailedBeforeOutput => fs = fs0 /\ stdout = <<>>
        /\ fs[ConfigPath] = fs0[ConfigPath]

====
